---- MODULE Spec2Model ----
(***************************************************************************)
(* Model of the translation-platform backend (src/main.py, src/schemas.py) *)
(*                                                                         *)
(*  - the collaboration broadcaster: the process-wide `subscribers` set,   *)
(*    GET /api/collab/stream, POST /api/collab/publish and the per-stream  *)
(*    consumption loop (specification Spec);                               *)
(*  - the book and chapter endpoints over the document store               *)
(*    (specification StoreSpec).                                           *)
(*                                                                         *)
(* Both `async def` handlers run on the single asyncio event loop: a       *)
(* coroutine keeps the loop until it awaits something that suspends.       *)
(* `await q.put(...)` on an asyncio.Queue() built without maxsize never    *)
(* suspends, so a publish keeps the loop from its first line to its        *)
(* return.  The model keeps the loop's owner in `running`.                 *)
(***************************************************************************)
EXTENDS Integers, Sequences, FiniteSets, TLC

\* ------------------------------------------------------------------ bounds
MaxStreams == 2     \* stream-opens explored
MaxPublish == 2     \* publish calls explored
MaxDocs    == 2     \* documents the store assigns an identity to

VARIABLES
    subscribers,    \* main.py:176  set of queues (queue = index into `queue`)
    queue,          \* content of every asyncio.Queue created so far
    stream,         \* state of the event_generator bound to each queue
    sent,           \* frames each stream has yielded to its client
    running,        \* TRUE while collab_publish owns the event loop
    task,           \* the frame of the collab_publish call that is running
    published,      \* history: events passed to collab_publish, in call order
    subAt,          \* history: Len(published) when each queue was registered
    book,           \* the "book" collection, in insertion order
    chapter,        \* the "chapter" collection, in insertion order
    nextOid,        \* next identity the store assigns
    patched,        \* history: identities a PATCH has matched
    resp            \* the last request handled and its response

collabVars == <<subscribers, queue, stream, sent, running, task, published, subAt>>
storeVars  == <<book, chapter, nextOid, patched>>
vars       == <<subscribers, queue, stream, sent, running, task, published, subAt,
                book, chapter, nextOid, patched, resp>>

\* ------------------------------------------------------- collaboration data
\* CollabEvent (main.py:199-202): three string fields.
CollabEvent == [chapter_id : {"c1"}, user : {"ann", "bob"}, content : {"hi"}]

\* event.model_dump_json(): the JSON text, as the sequence of its pieces.
model_dump_json(e) ==
    <<"{\"chapter_id\":\"", e.chapter_id, "\",\"user\":\"", e.user,
      "\",\"content\":\"", e.content, "\"}">>

\* f"data: {message}\n\n" (main.py:187)
Frame(message) == <<"data: ">> \o message \o <<"\n\n">>

Queues == 1..Len(queue)

RECURSIVE Frames(_)
Frames(ms) == IF ms = <<>> THEN <<>> ELSE <<Frame(Head(ms))>> \o Frames(Tail(ms))

RECURSIVE Dumps(_)
Dumps(es) == IF es = <<>> THEN <<>> ELSE <<model_dump_json(Head(es))>> \o Dumps(Tail(es))

\* Everything ever enqueued on q, as the frames the stream has emitted or
\* will emit for it: what was consumed, then what still waits in the queue.
Enqueued(q) == sent[q] \o Frames(queue[q])

NoTask == [event |-> "none", todo |-> {}, failed |-> {}, subs0 |-> {}, enq0 |-> <<>>]

\* Mutant of LoopIdle: handlers start while a publish is between two puts.
LoopAlwaysFree == TRUE

\* The event loop is free: no coroutine is between two of its steps.
LoopIdle == ~running

\* ------------------------------------------------------------ collab actions
\* GET /api/collab/stream (main.py:178-197).  `cleanup` (194-195) is defined
\* and never called or handed to the response.
collab_stream ==
    /\ LoopIdle
    /\ Len(queue) < MaxStreams
    /\ queue' = Append(queue, <<>>)
    /\ subscribers' = subscribers \cup {Len(queue) + 1}
    /\ stream' = Append(stream, "open")
    /\ sent' = Append(sent, <<>>)
    /\ subAt' = Append(subAt, Len(published))
    /\ resp' = [op |-> "stream", status |-> 200, media_type |-> "text/event-stream"]
    /\ UNCHANGED <<running, task, published, storeVars>>

\* One turn of the consumption loop (main.py:185-187).
event_generator_next(q) ==
    /\ LoopIdle
    /\ stream[q] = "open"
    /\ queue[q] # <<>>
    /\ sent' = [sent EXCEPT ![q] = Append(@, Frame(Head(queue[q])))]
    /\ queue' = [queue EXCEPT ![q] = Tail(@)]
    /\ UNCHANGED <<subscribers, stream, running, task, published, subAt, storeVars, resp>>

\* The client goes away: CancelledError is raised at the await and swallowed
\* (main.py:188-189); the generator ends.  Nothing touches `subscribers`.
event_generator_cancel(q) ==
    /\ LoopIdle
    /\ stream[q] = "open"
    /\ stream' = [stream EXCEPT ![q] = "closed"]
    /\ UNCHANGED <<subscribers, queue, sent, running, task, published, subAt, storeVars, resp>>

\* Mutant of Snapshot: the publish visits every queue ever created.
SnapshotEveryQueue == Queues

\* list(subscribers) (main.py:208): the channels registered when the loop starts.
Snapshot == subscribers

\* POST /api/collab/publish, entry (main.py:205-208).
publish_begin(event) ==
    /\ LoopIdle
    /\ Len(published) < MaxPublish
    /\ running' = TRUE
    /\ task' = [event |-> event, todo |-> Snapshot, failed |-> {},
                subs0 |-> subscribers, enq0 |-> [q \in Queues |-> Enqueued(q)]]
    /\ published' = Append(published, event)
    /\ UNCHANGED <<subscribers, queue, stream, sent, subAt, storeVars, resp>>

\* The channels the snapshot still has to visit.  A Python set iterates in
\* no particular order, so any of them may be next.
Pending == task.todo

\* Mutant of put: the message goes to the front of the queue.
put_front(items, message) == <<message>> \o items

\* q.put(message) on an unbounded asyncio.Queue (main.py:191, 210).
put(items, message) == Append(items, message)

\* One iteration of the loop (main.py:208-212), the put succeeds.
publish_put(q) ==
    /\ running
    /\ q \in Pending
    /\ queue' = [queue EXCEPT ![q] = put(@, model_dump_json(task.event))]
    /\ task' = [task EXCEPT !.todo = @ \ {q}]
    /\ UNCHANGED <<subscribers, stream, sent, running, published, subAt, storeVars, resp>>

\* Mutant of AfterFailure: the broken channel stays registered.
AfterFailureKeep(subs, q) == subs

\* What the except branch does with the channel whose put raised (main.py:212).
AfterFailure(subs, q) == subs \ {q}

\* One iteration of the loop, the put raises an Exception.
publish_put_fails(q) ==
    /\ running
    /\ q \in Pending
    /\ subscribers' = AfterFailure(subscribers, q)
    /\ task' = [task EXCEPT !.todo = @ \ {q}, !.failed = @ \cup {q}]
    /\ UNCHANGED <<queue, stream, sent, running, published, subAt, storeVars, resp>>

\* The body of the publisher's response (main.py:213).
PublishBody == [status |-> "ok"]

\* The loop is over: return {"status": "ok"} (main.py:213).
publish_return ==
    /\ running
    /\ Pending = {}
    /\ running' = FALSE
    /\ task' = NoTask
    /\ resp' = [op |-> "publish", status |-> 200, body |-> PublishBody,
                event |-> task.event, failed |-> task.failed]
    /\ UNCHANGED <<subscribers, queue, stream, sent, published, subAt, storeVars>>

Init ==
    /\ subscribers = {}
    /\ queue = <<>>
    /\ stream = <<>>
    /\ sent = <<>>
    /\ running = FALSE
    /\ task = NoTask
    /\ published = <<>>
    /\ subAt = <<>>
    /\ book = <<>>
    /\ chapter = <<>>
    /\ nextOid = 1
    /\ patched = {}
    /\ resp = [op |-> "none", status |-> 0]

Next ==
    \/ collab_stream
    \/ \E q \in Queues : event_generator_next(q)
    \/ \E q \in Queues : event_generator_cancel(q)
    \/ \E e \in CollabEvent : publish_begin(e)
    \/ \E q \in Queues : publish_put(q)
    \/ \E q \in Queues : publish_put_fails(q)
    \/ publish_return

Spec == Init /\ [][Next]_vars


\* ------------------------------------------------------------ identity tokens
\* An identity token is a string.  The model keeps what the code looks at:
\* whether it is 24 hex digits, the 12 bytes it denotes, and the letter case
\* it is written in ("junk" stands for any string that is not 24 hex digits).
Hex(n, up) == [kind |-> "hex24", n |-> n, upper |-> up]
Junk       == [kind |-> "junk", n |-> 0, upper |-> FALSE]
Oids       == 1..MaxDocs
\* Every identity in lower case, one of them in upper case too, and a junk string.
IdTokens   == {Hex(n, FALSE) : n \in Oids} \cup {Hex(1, TRUE), Junk}

\* Mutant of is_valid: the format check lets every string through.
is_valid_anything(v) == TRUE

\* ObjectId.is_valid(v) as called at main.py:107, 131, 146.
is_valid(v) == v.kind = "hex24"

\* ObjectId(s): the 12 bytes of a valid token, whatever its letter case
\* (main.py:133, 149).  A token that is not valid denotes no identity.
ObjectId(s) == IF s.kind = "hex24" THEN s.n ELSE 0

\* str(oid): 24 lower-case hex digits (main.py:99, 123, 136).
str(oid) == Hex(oid, FALSE)

\* None as the value of an optional string field.
None == "<None>"

\* A query parameter that is not given (None), or given empty: both are falsy.
Absent == [kind |-> "absent", n |-> 0, upper |-> FALSE]

\* ------------------------------------------------------------ request bodies
\* BookCreate (main.py:44-47)
BookCreate == [title : {"Moby Dick"}, author : {None, "Melville"},
               description : {None, "A whale"}]

\* ChapterCreate (main.py:34-39)
ChapterCreate == [book_id : {str(1), Hex(1, TRUE), Junk}, title : {"Ch1"}, source_language : {"en"},
                  target_language : {"es"}, source_text : {"Call me Ishmael"}]

\* ChapterUpdate.translation_text (main.py:41-42)
Texts == {"", "Llamenme Ismael"}

\* datetime.utcnow() (main.py:150): two readings of the server clock.
Times == {1, 2}

\* Mutant of Book: the author is not carried over.
BookWithoutAuthor(data) ==
    [title |-> data.title, author |-> None, description |-> data.description]

\* Book(**book.model_dump()) (main.py:88, schemas.py:19-26)
Book(data) ==
    [title |-> data.title, author |-> data.author, description |-> data.description]

\* Mutant of Chapter: translation_text starts as a copy of the source text.
ChapterPrefilled(data) ==
    [book_id |-> data.book_id, title |-> data.title,
     source_language |-> data.source_language,
     target_language |-> data.target_language,
     source_text |-> data.source_text, translation_text |-> data.source_text]

\* Chapter(**payload.model_dump()) (main.py:109, schemas.py:28-38): the payload
\* has no translation_text, so the field takes its default.
Chapter(data) ==
    [book_id |-> data.book_id, title |-> data.title,
     source_language |-> data.source_language,
     target_language |-> data.target_language,
     source_text |-> data.source_text, translation_text |-> ""]

\* ------------------------------------------------------------ document store
\* doc with the fields of `fields` set ($set, and the _id a stored document gets).
SetFields(doc, fields) ==
    [f \in DOMAIN doc \cup DOMAIN fields |->
        IF f \in DOMAIN fields THEN fields[f] ELSE doc[f]]

\* create_document(collection, data): stores the record under a fresh identity
\* and returns that identity as a string.
create_document(collection, data, oid) ==
    [docs |-> Append(collection, SetFields(data, [_id |-> oid])), id |-> str(oid)]

\* get_documents(collection, filter): the stored records the filter matches.
get_documents(collection, filter) ==
    SelectSeq(collection, LAMBDA d : \A f \in DOMAIN filter : d[f] = filter[f])

\* b["id"] = str(b.pop("_id")) (main.py:99, 123, 136)
PublicDoc(d) ==
    [f \in (DOMAIN d \ {"_id"}) \cup {"id"} |-> IF f = "id" THEN str(d._id) ELSE d[f]]

PublicDocs(docs) == [i \in 1..Len(docs) |-> PublicDoc(docs[i])]

\* db["chapter"].find_one({"_id": oid}): the first match, or no document.
find_one(collection, oid) ==
    LET hits == SelectSeq(collection, LAMBDA d : d._id = oid)
    IN  IF hits = <<>> THEN <<>> ELSE <<Head(hits)>>

\* Mutant of update_one: an update that matches nothing inserts (upsert).
update_one_upsert(collection, oid, fields) ==
    LET hits == {i \in 1..Len(collection) : collection[i]._id = oid}
    IN  IF hits = {}
        THEN [docs |-> Append(collection, SetFields([_id |-> oid], fields)),
              matched_count |-> 0]
        ELSE LET i == CHOOSE j \in hits : \A k \in hits : j <= k
             IN  [docs |-> [collection EXCEPT ![i] = SetFields(@, fields)],
                  matched_count |-> 1]

\* db["chapter"].update_one({"_id": oid}, {"$set": fields}) (main.py:148-151)
update_one(collection, oid, fields) ==
    LET hits == {i \in 1..Len(collection) : collection[i]._id = oid}
    IN  IF hits = {}
        THEN [docs |-> collection, matched_count |-> 0]
        ELSE LET i == CHOOSE j \in hits : \A k \in hits : j <= k
             IN  [docs |-> [collection EXCEPT ![i] = SetFields(@, fields)],
                  matched_count |-> 1]

\* Mutant of SetDocument: the text is written to the wrong field.
SetDocumentWrongField(text, ts) == [source_text |-> text, updated_at |-> ts]

\* The $set document of update_chapter (main.py:150)
SetDocument(text, ts) == [translation_text |-> text, updated_at |-> ts]

\* ------------------------------------------------------------ store endpoints
\* GET /api/books (main.py:93-102), as the body it returns.
list_books_body == PublicDocs(get_documents(book, <<>>))

\* GET /api/chapters/{chapter_id} (main.py:128-141), as the response it returns
\* when the "chapter" collection holds `collection`.
get_chapter_response(collection, chapter_id) ==
    IF ~is_valid(chapter_id)
    THEN [status |-> 400, detail |-> "Invalid chapter id"]
    ELSE LET doc == find_one(collection, ObjectId(chapter_id))
         IN  IF doc = <<>>
             THEN [status |-> 404, detail |-> "Chapter not found"]
             ELSE [status |-> 200, body |-> PublicDoc(doc[1])]

\* POST /api/books (main.py:85-91)
create_book(input) ==
    /\ nextOid <= MaxDocs
    /\ LET r == create_document(book, Book(input), nextOid)
       IN  /\ book' = r.docs
           /\ resp' = [op |-> "create_book", status |-> 200, body |-> [id |-> r.id],
                       input |-> input]
    /\ nextOid' = nextOid + 1
    /\ UNCHANGED <<chapter, patched, collabVars>>

\* GET /api/books (main.py:93-102)
list_books ==
    /\ resp' = [op |-> "list_books", status |-> 200, body |-> list_books_body]
    /\ UNCHANGED <<storeVars, collabVars>>

\* POST /api/chapters (main.py:104-115)
create_chapter(payload) ==
    IF ~is_valid(payload.book_id)
    THEN /\ resp' = [op |-> "create_chapter", status |-> 400,
                     detail |-> "Invalid book_id", payload |-> payload]
         /\ UNCHANGED <<storeVars, collabVars>>
    ELSE /\ nextOid <= MaxDocs
         /\ LET r == create_document(chapter, Chapter(payload), nextOid)
            IN  /\ chapter' = r.docs
                /\ resp' = [op |-> "create_chapter", status |-> 200,
                            body |-> [id |-> r.id], payload |-> payload]
         /\ nextOid' = nextOid + 1
         /\ UNCHANGED <<book, patched, collabVars>>

\* GET /api/chapters?book_id= (main.py:117-126)
list_chapters(book_id) ==
    /\ LET filter_q == IF book_id # Absent THEN [book_id |-> book_id] ELSE <<>>
       IN  resp' = [op |-> "list_chapters", status |-> 200,
                    body |-> PublicDocs(get_documents(chapter, filter_q))]
    /\ UNCHANGED <<storeVars, collabVars>>

\* GET /api/chapters/{chapter_id} (main.py:128-141)
get_chapter(chapter_id) ==
    /\ resp' = SetFields(get_chapter_response(chapter, chapter_id),
                         [op |-> "get_chapter", chapter_id |-> chapter_id])
    /\ UNCHANGED <<storeVars, collabVars>>

\* PATCH /api/chapters/{chapter_id} (main.py:143-158)
update_chapter(chapter_id, text, ts) ==
    IF ~is_valid(chapter_id)
    THEN /\ resp' = [op |-> "update_chapter", status |-> 400,
                     detail |-> "Invalid chapter id",
                     chapter_id |-> chapter_id, text |-> text]
         /\ UNCHANGED <<storeVars, collabVars>>
    ELSE LET res == update_one(chapter, ObjectId(chapter_id), SetDocument(text, ts))
         IN  /\ chapter' = res.docs
             /\ IF res.matched_count = 0
                THEN /\ resp' = [op |-> "update_chapter", status |-> 404,
                                 detail |-> "Chapter not found",
                                 chapter_id |-> chapter_id, text |-> text]
                     /\ patched' = patched
                ELSE /\ resp' = [op |-> "update_chapter", status |-> 200,
                                 body |-> [status |-> "ok"],
                                 chapter_id |-> chapter_id, text |-> text]
                     /\ patched' = patched \cup {ObjectId(chapter_id)}
             /\ UNCHANGED <<book, nextOid, collabVars>>

StoreNext ==
    \/ \E input \in BookCreate : create_book(input)
    \/ list_books
    \/ \E payload \in ChapterCreate : create_chapter(payload)
    \/ \E book_id \in IdTokens \cup {Absent} : list_chapters(book_id)
    \/ \E chapter_id \in IdTokens : get_chapter(chapter_id)
    \/ \E chapter_id \in IdTokens, text \in Texts, ts \in Times :
          update_chapter(chapter_id, text, ts)

StoreSpec == Init /\ [][StoreNext]_vars

\* ------------------------------------------------------------ broadcaster claims
\* The events a registered channel q must hold: those passed to publish since
\* q was registered, less the one in flight while its loop has not reached q.
PublishedSince(q) ==
    SubSeq(published, subAt[q] + 1,
           Len(published) - (IF running /\ q \in task.todo THEN 1 ELSE 0))

\* C1: for every channel that is still registered, the sequence of messages
\* enqueued on it is exactly the sequence of events published after it
\* subscribed: each once, in publish order, none from before it subscribed.
C1_ExactlyEventsSinceSubscribe ==
    \A q \in subscribers : Enqueued(q) = Frames(Dumps(PublishedSince(q)))

\* Two channels, the second opened after the first publish, and two
\* different events published: the first holds both, the second only the last.
C1_Witness ==
    /\ LoopIdle
    /\ Len(published) = 2
    /\ published[1] # published[2]
    /\ \E q1, q2 \in subscribers :
         /\ subAt[q1] = 0 /\ subAt[q2] = 1
         /\ Len(Enqueued(q1)) = 2 /\ Len(Enqueued(q2)) = 1

\* C2 (as claimed): once a stream has ended, its queue is no longer a
\* member of `subscribers`.
C2_ClosedStreamUnsubscribed ==
    \A q \in Queues : stream[q] = "closed" => q \notin subscribers

\* C3: once a channel is out of the subscriber set, no step (so no later
\* publish) enqueues anything on it.
C3_NoDeliveryAfterRemoval ==
    [][\A q \in Queues : q \notin subscribers => Enqueued(q)' = Enqueued(q)]_vars

\* A channel was removed, a later publish has run to its end and reached
\* another channel, and the removed one holds nothing of it.
C3_Witness ==
    /\ LoopIdle
    /\ \E q \in Queues \ subscribers :
         /\ Len(published) >= subAt[q] + Len(Enqueued(q)) + 2
         /\ \E r \in subscribers : Len(Enqueued(r)) >= 1

\* The step on which collab_publish returns.
PublishReturns == running /\ ~running'

EventFrame == Frame(model_dump_json(task.event))

\* C4: when the put on some channel fails during a publish, every other
\* channel of the snapshot still gets the event, the failing channel is out
\* of the set when the publish ends, and the publisher gets {status: "ok"}.
C4_BrokenSubscriberIsolated ==
    [][(PublishReturns /\ task.failed # {}) =>
          /\ \A q \in task.subs0 \ task.failed :
                Enqueued(q)' = Append(task.enq0[q], EventFrame)
          /\ task.failed \cap subscribers' = {}
          /\ resp'.op = "publish" /\ resp'.status = 200
          /\ resp'.body = [status |-> "ok"]]_vars

\* A publish has returned in which one channel failed and another got the event.
C4_Witness ==
    /\ LoopIdle
    /\ resp.op = "publish"
    /\ resp.failed # {}
    /\ \E q \in subscribers :
         /\ Enqueued(q) # <<>>
         /\ Enqueued(q)[Len(Enqueued(q))] = Frame(model_dump_json(resp.event))

\* C5: a publish acts as one serial step on the state it started from: it
\* returns ok, the set it leaves is the set it found less the channels that
\* failed, no channel registered throughout is skipped, and nothing else has
\* been added to or taken from any channel in between.
C5_PublishIsSerial ==
    [][PublishReturns =>
          /\ resp'.op = "publish" /\ resp'.status = 200
          /\ subscribers' = task.subs0 \ task.failed
          /\ DOMAIN queue' = DOMAIN task.enq0
          /\ \A q \in DOMAIN task.enq0 :
                Enqueued(q)' = IF q \in task.subs0 \ task.failed
                               THEN Append(task.enq0[q], EventFrame)
                               ELSE task.enq0[q]]_vars

\* Stream-opens, a stream-close and two publishes have all taken place.
C5_Witness ==
    /\ LoopIdle
    /\ resp.op = "publish"
    /\ Len(published) = 2
    /\ \E q, r \in Queues : stream[q] = "closed" /\ subAt[r] = 1

\* ------------------------------------------------------------ store claims
\* The stored chapter with identity oid, as a 0- or 1-element sequence.
Stored(oid) == SelectSeq(chapter, LAMBDA d : d._id = oid)

\* A step that is an Update Chapter call.
UpdateStep == resp'.op = "update_chapter"

\* C6 (as claimed): an update whose id matches no stored chapter, malformed
\* ids included, answers NotFound (404) and leaves the chapters unchanged.
C6_NotFoundForMalformedOrAbsent ==
    [][(UpdateStep /\ Stored(ObjectId(resp'.chapter_id)) = <<>>) =>
          (resp'.status = 404 /\ chapter' = chapter)]_vars

\* C6 (amended): an update whose id matches no stored chapter answers
\* InvalidArgument (400) when the id is malformed and NotFound (404) when it
\* is well formed; either way every stored chapter is left unchanged.
C6_MalformedIs400AbsentIs404 ==
    [][(UpdateStep /\ Stored(ObjectId(resp'.chapter_id)) = <<>>) =>
          /\ resp'.status = (IF resp'.chapter_id.kind = "hex24" THEN 404 ELSE 400)
          /\ chapter' = chapter]_vars

\* An update of a well-formed id that no chapter has was answered 404 while
\* a chapter is stored.
C6_Witness ==
    /\ resp.op = "update_chapter"
    /\ resp.status = 404
    /\ resp.chapter_id.kind = "hex24"
    /\ chapter # <<>>
    /\ Stored(ObjectId(resp.chapter_id)) = <<>>

\* What Get Chapter answers as translation_text for the chapter with
\* identity oid when the collection holds `collection`.
GetText(collection, oid) ==
    get_chapter_response(collection, str(oid)).body.translation_text

\* The fields an update may change.
Mutable == {"translation_text", "updated_at"}

\* C7: after a successful update of chapter C with text T, Get Chapter C
\* returns T, and it keeps returning it until the next successful update of
\* C; the update changes only C's translation_text and modification
\* timestamp, no other field, no other chapter and no book.
C7_UpdateSetsTextOnly ==
    [][/\ (UpdateStep /\ resp'.status = 200) =>
             LET got == get_chapter_response(chapter', resp'.chapter_id)
             IN  /\ got.status = 200
                 /\ got.body.translation_text = resp'.text
                 /\ book' = book
                 /\ Len(chapter') = Len(chapter)
                 /\ \A i \in 1..Len(chapter) :
                       /\ chapter'[i]._id = chapter[i]._id
                       /\ chapter[i]._id # ObjectId(resp'.chapter_id)
                             => chapter'[i] = chapter[i]
                       /\ \A f \in DOMAIN chapter[i] \ Mutable :
                             chapter'[i][f] = chapter[i][f]
                       /\ DOMAIN chapter'[i] \subseteq DOMAIN chapter[i] \cup Mutable
       /\ \A i \in 1..Len(chapter) :
             GetText(chapter', chapter[i]._id) # GetText(chapter, chapter[i]._id) =>
                (UpdateStep /\ resp'.status = 200
                    /\ ObjectId(resp'.chapter_id) = chapter[i]._id)]_vars

\* Two chapters are stored, one was updated to a non-empty text, and a
\* Get Chapter has been served since.
C7_Witness ==
    /\ Len(chapter) = 2
    /\ \E i \in 1..2 : /\ chapter[i]._id \in patched
                       /\ chapter[i].translation_text # ""
                       /\ GetText(chapter, chapter[i]._id) = chapter[i].translation_text
    /\ resp.op = "get_chapter"

\* C8: a chapter stored by Create Chapter has translation_text "" and keeps
\* it until an Update Chapter on it succeeds.
C8_TranslationDefaultsEmpty ==
    \A i \in 1..Len(chapter) :
        chapter[i]._id \notin patched => chapter[i].translation_text = ""

\* A chapter that was never updated sits next to one that was.
C8_Witness ==
    /\ Len(chapter) = 2
    /\ \E i, j \in 1..2 : /\ chapter[i]._id \notin patched
                          /\ chapter[j]._id \in patched
                          /\ chapter[j].translation_text # ""

\* A step that is a successful Create Book call.
CreateBookStep == resp'.op = "create_book" /\ nextOid' # nextOid

\* C9: Create Book returns an identity no stored book had; the list that
\* follows has exactly one entry with it, carrying the input's title, author
\* and description; every entry listed before is still listed, unchanged.
C9_CreateThenList ==
    [][CreateBookStep =>
          LET id     == resp'.body.id
              before == list_books_body
              after  == list_books_body'
              mine   == {i \in DOMAIN after : after[i].id = id}
          IN  /\ resp'.status = 200
              /\ \A i \in DOMAIN before : before[i].id # id
              /\ Cardinality(mine) = 1
              /\ \A i \in mine : /\ after[i].title = resp'.input.title
                                 /\ after[i].author = resp'.input.author
                                 /\ after[i].description = resp'.input.description
              /\ \A i \in DOMAIN before :
                    \E j \in DOMAIN after : after[j] = before[i]]_vars

\* A second book, with an author, was created next to an earlier one.
C9_Witness ==
    /\ resp.op = "create_book"
    /\ Len(book) = 2
    /\ resp.input.author # None
    /\ \E i \in DOMAIN list_books_body : list_books_body[i].id = resp.body.id

\* A step that is a Create Chapter call.
CreateChapterStep == resp'.op = "create_chapter"

\* C10: Create Chapter with a book_id that is not a well-formed identity
\* answers 400 and stores nothing; with a well-formed one it stores the
\* chapter, whether or not a book with that identity exists.
C10_BookIdFormatOnly ==
    [][CreateChapterStep =>
          IF resp'.payload.book_id.kind # "hex24"
          THEN resp'.status = 400 /\ chapter' = chapter
          ELSE /\ resp'.status = 200
               /\ Len(chapter') = Len(chapter) + 1
               /\ SubSeq(chapter', 1, Len(chapter)) = chapter
               /\ chapter'[Len(chapter')].book_id = resp'.payload.book_id
               /\ str(chapter'[Len(chapter')]._id) = resp'.body.id]_vars

\* A chapter was stored whose book_id is well formed and names no book.
C10_Witness ==
    /\ resp.op = "create_chapter"
    /\ resp.status = 200
    /\ \A i \in 1..Len(book) : book[i]._id # ObjectId(resp.payload.book_id)
    /\ \E i \in 1..Len(chapter) : chapter[i].book_id = resp.payload.book_id

====
